---- MODULE Spec2Model ----
(***************************************************************************)
(* A model of zine0/Axon: the container sandbox (sandbox/src/lib.rs, driven *)
(* as sandbox/examples/example.rs drives it) and the verdict data model     *)
(* (shared/src/lib.rs).                                                      *)
(*                                                                           *)
(* SandboxSpec: callers that create a ContainerSandbox, run commands in it   *)
(* through runc and clean up, over one host filesystem and one runc state    *)
(* directory.  JudgeSpec: one JudgeResult built by its constructors and      *)
(* add_test_case for one JudgeTask.                                          *)
(***************************************************************************)
EXTENDS Integers, Sequences, FiniteSets, TLC

VARIABLES
    \* ---- the host, as the sandbox sees it
    dirs,           \* dirs[r]: the directories that exist under rootfs path r ("." is r itself)
    files,          \* files[r][f]: the content of regular file f under r, or NoFile
    registered,     \* the container ids runc holds state for
    runcInstalled,  \* whether Command::new("runc") can be spawned
    \* ---- each caller (a main() like the example's, or a thread of one)
    pc,             \* where the caller is
    sb,             \* the caller's ContainerSandbox {container_id, rootfs}
    runs,           \* run_command invocations the caller has started
    requested,      \* <<command, args>> of the caller's current run_command
    executed,       \* the process.args runc started for the caller's current run_command
    prog,           \* what the judged program of the current run does
    lastResult,     \* the last run_command's return: "none", "Ok", or one of its errors
    captured,       \* the bytes of program output the last run_command's Output held
    handed,         \* history: every (caller, run, id) handed to `runc run`
    \* ---- the verdict model
    task,           \* the JudgeTask being judged
    result,         \* the JudgeResult: None before a constructor ran
    calls           \* history: the arguments of every add_test_case call, in order

sandboxVars == <<dirs, files, registered, runcInstalled, pc, sb, runs, requested,
                 executed, prog, lastResult, captured, handed>>
judgeVars == <<task, result, calls>>
vars == <<dirs, files, registered, runcInstalled, pc, sb, runs, requested,
          executed, prog, lastResult, captured, handed, task, result, calls>>

\* How many run_command calls one caller makes at most (the example makes two).
MaxRuns == 2
\* How many bytes a judged program writes at most.
MaxOutput == 2
\* The cap on captured output that section 4.3 of the specification asks for;
\* run_command has none, so the value is the model's.
OutputCap == 1
\* How many add_test_case calls are made on the result at most.
MaxResults == 2
\* How many test cases a task has at most.
MaxCases == 2

None == [some |-> FALSE]
Some(x) == [some |-> TRUE, val |-> x]

(***************************************************************************)
(* The sandbox                                                               *)
(***************************************************************************)
Callers == {"main1", "main2"}
ContainerIds == {"test_sandbox", "other_sandbox"}
RootfsPaths == {"/tmp/sandbox_rootfs", "/tmp/other_rootfs"}
\* main1 is the example's main, with the example's container id and rootfs path;
\* main2 is a second program (or a second run of the example) on any of them.
IdsOf(c) == IF c = "main1" THEN {"test_sandbox"} ELSE ContainerIds
PathsOf(c) == IF c = "main1" THEN {"/tmp/sandbox_rootfs"} ELSE RootfsPaths
\* The commands the example runs.
Commands == { <<"/bin/ls", <<"-la", "/">> >>, <<"/bin/uname", <<"-a">> >> }

\* The two errors run_command returns: an io::Error through `?` (fs::write, or
\* spawning runc), and anyhow!("Command failed: {stderr}") for a non-zero exit.
ErrIo == "Err: io error"
ErrCommandFailed == "Err: Command failed"

NoFile == [exists |-> FALSE]
File(content) == [exists |-> TRUE, content |-> content]
FileNames == {"config.json", "workspace/main.c"}
NoFiles == [f \in FileNames |-> NoFile]

\* fs::create_dir_all(rootfs) and the eleven create_dir_all calls after it:
\* every directory made, parents included.
SkeletonDirs ==
    {".", "bin", "usr", "usr/bin", "lib", "lib64", "etc", "proc", "sys",
     "dev", "dev/pts", "dev/shm", "workspace"}

\* Path::new(&self.rootfs).exists()
Exists(r) == "." \in dirs[r]

\* A path that holds what an earlier sandbox left: its config.json or a file
\* copied into it.
Occupied(r) == \E f \in FileNames : files[r][f].exists

\* The process arguments without the command in front of them.
full_args_without_command(command, args) == args

\* create_container_config: let mut full_args = vec![command];
\* full_args.extend(args).
full_args(command, args) == <<command>> \o args

\* create_container_config's json! document.
ContainerConfig(rootfs, command, args) ==
    [ ociVersion |-> "1.0.0",
      process |->
        [ terminal |-> FALSE,
          user |-> [uid |-> 0, gid |-> 0],
          args |-> full_args(command, args),
          env |-> <<"PATH=/bin:/usr/bin:/usr/local/bin", "HOME=/root", "TERM=xterm">>,
          cwd |-> "/workspace",
          capabilities |->
            [ bounding |-> {}, effective |-> {}, inheritable |-> {},
              permitted |-> {}, ambient |-> {} ] ],
      root |-> [path |-> rootfs, readonly |-> FALSE],
      hostname |-> "sandbox",
      mounts |-> <<"/proc", "/dev", "/bin", "/usr/bin", "/lib", "/lib64",
                   "/usr/lib", "/usr/lib64", "/workspace">>,
      linux |->
        [ resources |-> [devices |-> << [allow |-> FALSE, access |-> "rwm"] >>],
          namespaces |-> <<"pid", "network", "ipc", "uts", "mount", "user">>,
          uidMappings |-> << [containerID |-> 0, hostID |-> 1000, size |-> 1] >>,
          gidMappings |-> << [containerID |-> 0, hostID |-> 1000, size |-> 1] >> ] ]

SandboxInit ==
    /\ dirs = [r \in RootfsPaths |-> {}]
    /\ files = [r \in RootfsPaths |-> NoFiles]
    /\ registered = {}
    /\ runcInstalled \in BOOLEAN
    /\ pc = [c \in Callers |-> "start"]
    /\ sb = [c \in Callers |-> None]
    /\ runs = [c \in Callers |-> 0]
    /\ requested = [c \in Callers |-> None]
    /\ executed = [c \in Callers |-> None]
    /\ prog = [c \in Callers |-> "none"]
    /\ lastResult = [c \in Callers |-> "none"]
    /\ captured = [c \in Callers |-> 0]
    /\ handed = {}
    \* no judgment is in progress
    /\ task = None
    /\ result = None
    /\ calls = <<>>

\* example.rs: let _ = fs::remove_dir_all(rootfs_path), before the sandbox is made.
RemoveStale(c) ==
    /\ pc[c] = "start"
    /\ \E r \in PathsOf(c) :
        /\ Exists(r)
        /\ dirs' = [dirs EXCEPT ![r] = {}]
        /\ files' = [files EXCEPT ![r] = NoFiles]
    /\ UNCHANGED <<registered, runcInstalled, pc, sb, runs, requested, executed,
                   prog, lastResult, handed, captured, judgeVars>>

\* new with fs::create_dir in place of fs::create_dir_all: creating a directory
\* that exists is an error, which `?` returns (and main's `?` after it).
NewOn_create_dir(c, id, r) ==
    /\ pc[c] = "start"
    /\ IF Exists(r)
       THEN /\ pc' = [pc EXCEPT ![c] = "done_err"]
            /\ UNCHANGED <<dirs, sb>>
       ELSE /\ dirs' = [dirs EXCEPT ![r] = @ \cup SkeletonDirs]
            /\ sb' = [sb EXCEPT ![c] = Some([container_id |-> id, rootfs |-> r])]
            /\ pc' = [pc EXCEPT ![c] = "ready"]
    /\ UNCHANGED <<files, registered, runcInstalled, runs, requested, executed,
                   prog, lastResult, handed, captured, judgeVars>>

\* ContainerSandbox::new(container_id, rootfs): create_dir_all succeeds on
\* directories that exist, and nothing under the path is looked at or removed.
NewOn(c, id, r) ==
    /\ pc[c] = "start"
    /\ dirs' = [dirs EXCEPT ![r] = @ \cup SkeletonDirs]
    /\ sb' = [sb EXCEPT ![c] = Some([container_id |-> id, rootfs |-> r])]
    /\ pc' = [pc EXCEPT ![c] = "ready"]
    /\ UNCHANGED <<files, registered, runcInstalled, runs, requested, executed,
                   prog, lastResult, handed, captured, judgeVars>>

\* let sandbox = ContainerSandbox::new(container_id, rootfs_path)?
New(c) == \E id \in IdsOf(c), r \in PathsOf(c) : NewOn(c, id, r)

\* copy_file_in(src, "workspace/main.c"): fs::copy fails when the directory is
\* gone; the caller goes on either way.
CopyFileIn(c) ==
    /\ pc[c] = "ready"
    /\ LET r == sb[c].val.rootfs IN
        /\ "workspace" \in dirs[r]
        /\ files' = [files EXCEPT ![r]["workspace/main.c"] = File("source")]
    /\ UNCHANGED <<dirs, registered, runcInstalled, pc, sb, runs, requested,
                   executed, prog, lastResult, handed, captured, judgeVars>>

\* run_command, first half: create_container_config writes <rootfs>/config.json;
\* fs::write fails when the rootfs directory is gone and `?` returns the error.
RunWriteConfig(c) ==
    /\ pc[c] = "ready"
    /\ runs[c] < MaxRuns
    /\ \E cmd \in Commands :
        LET r == sb[c].val.rootfs IN
        /\ runs' = [runs EXCEPT ![c] = @ + 1]
        /\ requested' = [requested EXCEPT ![c] = Some(cmd)]
        /\ executed' = [executed EXCEPT ![c] = None]
        /\ captured' = [captured EXCEPT ![c] = 0]
        /\ \/ /\ Exists(r)
              /\ files' = [files EXCEPT ![r]["config.json"] =
                              File(ContainerConfig(r, cmd[1], cmd[2]))]
              /\ pc' = [pc EXCEPT ![c] = "spawn"]
              /\ lastResult' = [lastResult EXCEPT ![c] = "none"]
           \/ /\ ~Exists(r)
              /\ lastResult' = [lastResult EXCEPT ![c] = ErrIo]
              /\ UNCHANGED <<files, pc>>
    /\ UNCHANGED <<dirs, registered, runcInstalled, sb, prog, handed, judgeVars>>

\* run_command, second half up to the wait: Command::new("runc").args(["run",
\* "--bundle", rootfs, container_id]).output().  Spawning fails when runc is not
\* installed.  runc refuses an id it already holds state for and a bundle without
\* config.json, and exits non-zero; otherwise it registers the id and starts the
\* process.args of the config.json it finds in the bundle.
RunSpawn(c) ==
    /\ pc[c] = "spawn"
    /\ LET r == sb[c].val.rootfs
           id == sb[c].val.container_id
       IN
        \/ /\ ~runcInstalled
           /\ pc' = [pc EXCEPT ![c] = "ready"]
           /\ lastResult' = [lastResult EXCEPT ![c] = ErrIo]
           /\ UNCHANGED <<registered, executed, prog, handed>>
        \/ /\ runcInstalled
           /\ handed' = handed \cup {[caller |-> c, run |-> runs[c], id |-> id]}
           /\ \/ /\ id \in registered \/ ~files[r]["config.json"].exists
                 /\ pc' = [pc EXCEPT ![c] = "ready"]
                 /\ lastResult' = [lastResult EXCEPT ![c] = ErrCommandFailed]
                 /\ UNCHANGED <<registered, executed, prog>>
              \/ /\ id \notin registered
                 /\ files[r]["config.json"].exists
                 /\ registered' = registered \cup {id}
                 /\ executed' = [executed EXCEPT ![c] =
                        Some(files[r]["config.json"].content.process.args)]
                 /\ \E b \in {"exit0", "exit1", "hang"} :
                        prog' = [prog EXCEPT ![c] = b]
                 /\ pc' = [pc EXCEPT ![c] = "running"]
                 /\ UNCHANGED lastResult
    /\ UNCHANGED <<dirs, files, runcInstalled, sb, runs, requested, captured, judgeVars>>

\* run_command, the end: output() returns once the program has exited, which a
\* program that hangs never does.  `runc run` drops the container's state as it
\* exits; status.success() decides between Ok(stdout) and Err("Command failed").
\* Output holds everything the program wrote to its piped stdout and stderr.
ProgExit(c) ==
    /\ pc[c] = "running"
    /\ prog[c] \in {"exit0", "exit1"}
    /\ registered' = registered \ {sb[c].val.container_id}
    /\ lastResult' = [lastResult EXCEPT ![c] =
                        IF prog[c] = "exit0" THEN "Ok" ELSE ErrCommandFailed]
    /\ \E written \in 0..MaxOutput : captured' = [captured EXCEPT ![c] = written]
    /\ prog' = [prog EXCEPT ![c] = "none"]
    /\ pc' = [pc EXCEPT ![c] = "ready"]
    /\ UNCHANGED <<dirs, files, runcInstalled, sb, runs, requested, executed, handed,
                   judgeVars>>

\* cleanup(): `runc delete <id>`.  Only a failure to spawn runc is an error (and
\* main's `?` then returns before cleanup_rootfs); runc's own exit status is
\* dropped.  runc delete without --force refuses a container that is running,
\* and a registered container is one whose `runc run` has not returned.
Cleanup(c) ==
    /\ pc[c] = "ready"
    /\ \/ /\ ~runcInstalled
          /\ pc' = [pc EXCEPT ![c] = "done_err"]
       \/ /\ runcInstalled
          /\ pc' = [pc EXCEPT ![c] = "cleaned"]
    /\ UNCHANGED <<dirs, files, registered, runcInstalled, sb, runs, requested,
                   executed, prog, lastResult, handed, captured, judgeVars>>

\* cleanup_rootfs(): remove_dir_all when the path exists.
CleanupRootfs(c) ==
    /\ pc[c] = "cleaned"
    /\ LET r == sb[c].val.rootfs IN
        IF Exists(r)
        THEN /\ dirs' = [dirs EXCEPT ![r] = {}]
             /\ files' = [files EXCEPT ![r] = NoFiles]
        ELSE UNCHANGED <<dirs, files>>
    /\ pc' = [pc EXCEPT ![c] = "done_ok"]
    /\ UNCHANGED <<registered, runcInstalled, sb, runs, requested, executed,
                   prog, lastResult, handed, captured, judgeVars>>

SandboxNext ==
    \E c \in Callers :
        \/ RemoveStale(c)
        \/ New(c)
        \/ CopyFileIn(c)
        \/ RunWriteConfig(c)
        \/ RunSpawn(c)
        \/ ProgExit(c)
        \/ Cleanup(c)
        \/ CleanupRootfs(c)

SandboxSpec == SandboxInit /\ [][SandboxNext]_vars

\* The invoker goes on to spawn runc once the config is written, and a program
\* that exits does exit.
FairSandboxSpec ==
    /\ SandboxSpec
    /\ \A c \in Callers : WF_vars(RunSpawn(c)) /\ WF_vars(ProgExit(c))

(***************************************************************************)
(* The verdict model                                                         *)
(***************************************************************************)
\* enum RuntimeErrorType
RuntimeErrorType ==
    {"SegmentationFault", "FloatingPointException", "DivisionByZero",
     "AssertionFailed", "StackOverflow", "NullPointerDereference",
     "FileOperationError", "PermissionDenied", "Other"}

\* enum JudgeStatus: the variants without a payload, and RuntimeError(kind).
PlainStatus ==
    {"Accepted", "WrongAnswer", "TimeLimitExceeded", "MemoryLimitExceeded",
     "CompileError", "RestrictedOperation", "OutputLimitExceeded", "SystemError",
     "Pending", "Judging", "Cancelled"}
Status(tag) == [tag |-> tag, kind |-> "-"]
RuntimeError(kind) == [tag |-> "RuntimeError", kind |-> kind]
JudgeStatus ==
    {Status(t) : t \in PlainStatus} \cup {RuntimeError(k) : k \in RuntimeErrorType}

\* matches!(self, JudgeStatus::Accepted)
is_accepted(status) == status = Status("Accepted")

\* is_final with Cancelled taken for a status still in progress.
is_final_cancelled_not_final(status) ==
    ~(status = Status("Pending") \/ status = Status("Judging")
        \/ status = Status("Cancelled"))

\* !matches!(self, JudgeStatus::Pending | JudgeStatus::Judging)
is_final(status) == ~(status = Status("Pending") \/ status = Status("Judging"))

\* ErrorInfo::new(message)
ErrorInfoNew(message) ==
    [ message |-> message, code |-> None, line |-> None, column |-> None,
      stderr |-> None, stdout |-> None, exit_code |-> None, signal |-> None ]

\* ErrorInfo::runtime_error(message, signal, stderr)
ErrorInfoRuntimeError(message, signal, stderr) ==
    [ message |-> message, code |-> None, line |-> None, column |-> None,
      stderr |-> stderr, stdout |-> None, exit_code |-> None, signal |-> Some(signal) ]

\* TestCase::new(id, input, expected_output), its weight then set by the caller
\* (weight is a public field; new leaves it at 1.0).
TestCaseNew(id, input, expected_output, weight) ==
    [ id |-> id, input |-> input, expected_output |-> expected_output,
      time_limit |-> None, memory_limit |-> None, is_hidden |-> FALSE,
      weight |-> weight ]

\* ProgrammingLanguage::needs_compilation
needs_compilation(language) ==
    CASE language \in {"C", "Cpp", "Cpp11", "Cpp14", "Cpp17", "Cpp20", "Java", "Rust", "Go"}
            -> TRUE
      [] language \in {"Python2", "Python3", "JavaScript", "TypeScript"} -> FALSE

\* ProgrammingLanguage::default_compile_flags
default_compile_flags(language) ==
    CASE language = "C" -> <<"-O2", "-Wall">>
      [] language = "Cpp" -> <<"-O2", "-Wall", "-std=c++11">>
      [] language = "Cpp11" -> <<"-O2", "-Wall", "-std=c++11">>
      [] language = "Cpp14" -> <<"-O2", "-Wall", "-std=c++14">>
      [] language = "Cpp17" -> <<"-O2", "-Wall", "-std=c++17">>
      [] language = "Cpp20" -> <<"-O2", "-Wall", "-std=c++20">>
      [] language = "Java" -> <<"-Xlint:all">>
      [] language = "Rust" -> <<"-O">>
      [] language = "Go" -> <<>>
      [] OTHER -> <<>>

\* Submission::new(problem_id, user_id, language, source_code, time_limit, memory_limit)
SubmissionNew(id, problem_id, user_id, language, time_limit, memory_limit) ==
    [ id |-> id, problem_id |-> problem_id, user_id |-> user_id,
      language |-> language, source_code |-> "source",
      time_limit |-> time_limit, memory_limit |-> memory_limit,
      priority |-> 0, contest_id |-> None ]

\* JudgeTask::new(submission, test_cases)
JudgeTaskNew(submission, test_cases) ==
    LET nc == needs_compilation(submission.language) IN
    [ submission |-> submission,
      test_cases |-> test_cases,
      needs_compilation |-> nc,
      use_sandbox |-> TRUE,
      compile_flags |-> IF nc THEN Some(default_compile_flags(submission.language))
                        ELSE None,
      runtime_args |-> None ]

\* self.test_cases.iter().map(|tc| tc.weight).sum(), over the first n cases.
RECURSIVE SumWeights(_, _)
SumWeights(cases, n) ==
    IF n = 0 THEN 0 ELSE SumWeights(cases, n - 1) + cases[n].weight

\* JudgeTask::total_weight
total_weight(t) == SumWeights(t.test_cases, Len(t.test_cases))

\* Option::unwrap_or
unwrap_or(opt, default) == IF opt.some THEN opt.val ELSE default

\* TestCase::with_limits
TestCaseWithLimits(id, input, expected_output, time_limit, memory_limit) ==
    [ id |-> id, input |-> input, expected_output |-> expected_output,
      time_limit |-> Some(time_limit), memory_limit |-> Some(memory_limit),
      is_hidden |-> FALSE, weight |-> 1 ]

\* TestCase::effective_time_limit
effective_time_limit(self, default_time_limit) ==
    unwrap_or(self.time_limit, default_time_limit)

\* TestCase::effective_memory_limit
effective_memory_limit(self, default_memory_limit) ==
    unwrap_or(self.memory_limit, default_memory_limit)

\* Iterator::min over the first n values: None when there is none.
RECURSIVE IterMin(_, _)
IterMin(values, n) ==
    IF n = 0 THEN None
    ELSE LET rest == IterMin(values, n - 1) IN
         IF rest.some /\ rest.val < values[n] THEN rest ELSE Some(values[n])

\* Iterator::max over the first n values: None when there is none.
RECURSIVE IterMax(_, _)
IterMax(values, n) ==
    IF n = 0 THEN None
    ELSE LET rest == IterMax(values, n - 1) IN
         IF rest.some /\ rest.val > values[n] THEN rest ELSE Some(values[n])

\* max_time_limit with .min() in place of .max().
max_time_limit_min(self) ==
    LET limits == [i \in 1..Len(self.test_cases) |->
                      unwrap_or(self.test_cases[i].time_limit, self.submission.time_limit)]
    IN unwrap_or(IterMin(limits, Len(limits)), self.submission.time_limit)

\* JudgeTask::max_time_limit
max_time_limit(self) ==
    LET limits == [i \in 1..Len(self.test_cases) |->
                      unwrap_or(self.test_cases[i].time_limit, self.submission.time_limit)]
    IN unwrap_or(IterMax(limits, Len(limits)), self.submission.time_limit)

\* JudgeTask::max_memory_limit
max_memory_limit(self) ==
    LET limits == [i \in 1..Len(self.test_cases) |->
                      unwrap_or(self.test_cases[i].memory_limit, self.submission.memory_limit)]
    IN unwrap_or(IterMax(limits, Len(limits)), self.submission.memory_limit)

\* JudgeResult::accepted
accepted(time_used, memory_used, submission_id, problem_id, user_id) ==
    [ status |-> Status("Accepted"),
      time_used |-> time_used,
      memory_used |-> memory_used,
      error_info |-> None,
      test_cases |-> <<>>,
      submission_id |-> submission_id,
      problem_id |-> problem_id,
      user_id |-> user_id,
      score |-> 100 ]

\* with_error with the score copied from accepted.
with_error_full_score(status, time_used, memory_used, error_info, submission_id, problem_id, user_id) ==
    [ status |-> status,
      time_used |-> time_used,
      memory_used |-> memory_used,
      error_info |-> Some(error_info),
      test_cases |-> <<>>,
      submission_id |-> submission_id,
      problem_id |-> problem_id,
      user_id |-> user_id,
      score |-> 100 ]

\* JudgeResult::with_error
with_error(status, time_used, memory_used, error_info, submission_id, problem_id, user_id) ==
    [ status |-> status,
      time_used |-> time_used,
      memory_used |-> memory_used,
      error_info |-> Some(error_info),
      test_cases |-> <<>>,
      submission_id |-> submission_id,
      problem_id |-> problem_id,
      user_id |-> user_id,
      score |-> 0 ]

\* add_test_case that also takes the pushed case's status as the result's.
add_test_case_sets_status(self, test_case) ==
    [self EXCEPT !.test_cases = Append(@, test_case), !.status = test_case.status]

\* JudgeResult::add_test_case: self.test_cases.push(test_case)
add_test_case(self, test_case) ==
    [self EXCEPT !.test_cases = Append(@, test_case)]

\* passed_test_cases with the filter slipped from is_accepted to is_final.
passed_test_cases_counts_final(self) ==
    Cardinality({i \in 1..Len(self.test_cases) : is_final(self.test_cases[i].status)})

\* JudgeResult::passed_test_cases
passed_test_cases(self) ==
    Cardinality({i \in 1..Len(self.test_cases) : is_accepted(self.test_cases[i].status)})

\* JudgeResult::total_test_cases
total_test_cases(self) == Len(self.test_cases)

\* ---- the inputs the judge specification draws from
TestIds == <<"test_1", "test_2", "test_3">>
Weights == {1, 2}
Languages == {"Cpp17", "Python3"}

\* The test case lists of a task: cases test_1..test_n, each with a weight.
CaseLists ==
    UNION { { [i \in 1..n |-> TestCaseNew(TestIds[i], "in", "out", w[i])] :
                w \in [1..n -> Weights] } : n \in 0..MaxCases }

Tasks ==
    { JudgeTaskNew(SubmissionNew("s1", "p1", "u1", l, 1000, 65536), cases) :
        l \in Languages, cases \in CaseLists }

\* The statuses a test case result is given in the judge specification.
ResultStatuses ==
    {Status("Accepted"), Status("WrongAnswer"), Status("TimeLimitExceeded"),
     RuntimeError("SegmentationFault")}

\* The TestCaseResult values handed to add_test_case (those of test_usage_examples,
\* with each of the statuses above).
TestCaseResults ==
    { [ id |-> "test_1", status |-> st, time_used |-> 50, memory_used |-> 256,
        input |-> Some("1 2"), expected_output |-> Some("3"),
        actual_output |-> Some("3"), error_info |-> None ] : st \in ResultStatuses }
    \cup
    { [ id |-> "test_2", status |-> st, time_used |-> 75, memory_used |-> 384,
        input |-> Some("5 7"), expected_output |-> Some("12"),
        actual_output |-> Some("13"), error_info |-> None ] : st \in ResultStatuses }

ErrorInfos ==
    { ErrorInfoNew("Compilation failed"),
      ErrorInfoRuntimeError("Segmentation fault", 11, Some("core dumped")) }

JudgeInit ==
    /\ task \in {Some(t) : t \in Tasks}
    /\ result = None
    /\ calls = <<>>
    \* no sandbox is in use
    /\ dirs = [r \in RootfsPaths |-> {}]
    /\ files = [r \in RootfsPaths |-> NoFiles]
    /\ registered = {}
    /\ runcInstalled = TRUE
    /\ pc = [c \in Callers |-> "start"]
    /\ sb = [c \in Callers |-> None]
    /\ runs = [c \in Callers |-> 0]
    /\ requested = [c \in Callers |-> None]
    /\ executed = [c \in Callers |-> None]
    /\ prog = [c \in Callers |-> "none"]
    /\ lastResult = [c \in Callers |-> "none"]
    /\ captured = [c \in Callers |-> 0]
    /\ handed = {}

\* let r = JudgeResult::accepted(time_used, memory_used, ...) for the task's submission
Accepted ==
    /\ result = None
    /\ \E u \in {<<150, 1024>>, <<200, 768>>} :
        LET sub == task.val.submission IN
        result' = Some(accepted(u[1], u[2], sub.id, sub.problem_id, sub.user_id))
    /\ UNCHANGED <<task, calls, sandboxVars>>

\* let r = JudgeResult::with_error(status, time_used, memory_used, error_info, ...)
WithError ==
    /\ result = None
    /\ \E status \in JudgeStatus, ei \in ErrorInfos :
        LET sub == task.val.submission IN
        result' = Some(with_error(status, 0, 0, ei, sub.id, sub.problem_id, sub.user_id))
    /\ UNCHANGED <<task, calls, sandboxVars>>

\* r.add_test_case(test_case)
AddTestCase ==
    /\ result # None
    /\ Len(calls) < MaxResults
    /\ \E tcr \in TestCaseResults :
        /\ result' = Some(add_test_case(result.val, tcr))
        /\ calls' = Append(calls, tcr)
    /\ UNCHANGED <<task, sandboxVars>>

JudgeNext ==
    \/ Accepted
    \/ WithError
    \/ AddTestCase

JudgeSpec == JudgeInit /\ [][JudgeNext]_vars

(***************************************************************************)
(* Judge tasks: made by JudgeTask::new, or read by the Deserialize that the  *)
(* struct derives.                                                           *)
(***************************************************************************)
\* enum ProgrammingLanguage
ProgrammingLanguage ==
    {"C", "Cpp", "Cpp11", "Cpp14", "Cpp17", "Cpp20", "Python2", "Python3",
     "Java", "Rust", "Go", "JavaScript", "TypeScript"}

\* The test cases a task is given: without limits of their own, or with limits
\* below or above the submission's.
LimitCases(id) ==
    {TestCaseNew(id, "in", "out", 1)}
    \cup {TestCaseWithLimits(id, "in", "out", tl, ml) :
            tl \in {100, 2000}, ml \in {1024, 131072}}

LimitCaseLists ==
    UNION { { cases \in [1..n -> UNION {LimitCases(TestIds[i]) : i \in 1..n}] :
                \A i \in 1..n : cases[i].id = TestIds[i] } : n \in 0..MaxCases }

Submissions ==
    { SubmissionNew("s1", "p1", "u1", l, tl, 65536) :
        l \in ProgrammingLanguage, tl \in {1000, 3000} }

TaskInit ==
    /\ task = None
    /\ result = None
    /\ calls = <<>>
    \* no sandbox is in use
    /\ dirs = [r \in RootfsPaths |-> {}]
    /\ files = [r \in RootfsPaths |-> NoFiles]
    /\ registered = {}
    /\ runcInstalled = TRUE
    /\ pc = [c \in Callers |-> "start"]
    /\ sb = [c \in Callers |-> None]
    /\ runs = [c \in Callers |-> 0]
    /\ requested = [c \in Callers |-> None]
    /\ executed = [c \in Callers |-> None]
    /\ prog = [c \in Callers |-> "none"]
    /\ lastResult = [c \in Callers |-> "none"]
    /\ captured = [c \in Callers |-> 0]
    /\ handed = {}

\* let task = JudgeTask::new(submission, test_cases)
TaskNew ==
    /\ task = None
    /\ \E submission \in Submissions, cases \in LimitCaseLists :
        task' = Some(JudgeTaskNew(submission, cases))
    /\ UNCHANGED <<result, calls, sandboxVars>>

\* let task: JudgeTask = serde_json::from_str(..): the derived Deserialize takes
\* every field from the document, needs_compilation and compile_flags included,
\* whatever the submission's language is.
TaskDeserialize ==
    /\ task = None
    /\ \E submission \in Submissions, cases \in {<<>>},
          nc \in BOOLEAN, flags \in {None, Some(<<"-O2", "-Wall">>)} :
        task' = Some([ submission |-> submission,
                       test_cases |-> cases,
                       needs_compilation |-> nc,
                       use_sandbox |-> TRUE,
                       compile_flags |-> flags,
                       runtime_args |-> None ])
    /\ UNCHANGED <<result, calls, sandboxVars>>

TaskNext ==
    \/ TaskNew
    \/ TaskDeserialize

TaskSpec == TaskInit /\ [][TaskNext]_vars

(***************************************************************************)
(* Claims about the sandbox                                                  *)
(***************************************************************************)
Finished(c) == pc[c] \in {"done_ok", "done_err"}

\* C1: once a caller that ran a command has left (its run_command calls returned
\* and its main has ended, by whatever path), the sandbox's rootfs path does not
\* exist any more and its container id is not registered with runc.
C1_CleanupOnEveryExitPath ==
    \A c \in Callers :
        (Finished(c) /\ runs[c] > 0) =>
            /\ ~Exists(sb[c].val.rootfs)
            /\ sb[c].val.container_id \notin registered

\* C2: no two invocations of run_command hand the same container id to runc.
C2_FreshIdentityPerInvocation ==
    \A h1, h2 \in handed : h1 # h2 => h1.id # h2.id

\* C3: the process runc starts for an invocation is the command and arguments
\* that invocation wrote into its config.json.
C3_SpecFileIsPrivate ==
    \A c \in Callers :
        pc[c] = "running" =>
            executed[c].val = <<requested[c].val[1]>> \o requested[c].val[2]

\* C4: every execution returns: a run_command that is waiting for its program
\* stops waiting, whether or not the program exits by itself.
C4_EveryExecutionReturns ==
    \A c \in Callers : (pc[c] = "running") ~> (pc[c] # "running")

\* C10: ContainerSandbox::new does not succeed on a path that a prior, un-cleaned
\* environment occupies.
C10_NewFailsOnOccupiedPath ==
    [][\A c \in Callers :
          (pc[c] = "start" /\ pc'[c] = "ready") =>
              \A r \in RootfsPaths : sb'[c].val.rootfs = r => ~Occupied(r)]_vars

\* C11: ContainerSandbox::new on a path that already holds the empty skeleton
\* succeeds and leaves exactly the skeleton's directories there, and no file.
C11_NewIsIdempotent ==
    [][\A c \in Callers, id \in ContainerIds, r \in RootfsPaths :
          (dirs[r] = SkeletonDirs /\ ~Occupied(r) /\ NewOn(c, id, r)) =>
              /\ pc'[c] = "ready"
              /\ sb'[c] = Some([container_id |-> id, rootfs |-> r])
              /\ dirs'[r] = SkeletonDirs
              /\ ~Occupied(r)']_vars

\* C11, its case: two sandboxes made on one path, which holds the bare skeleton.
C11_Witness ==
    \E r \in RootfsPaths :
        /\ \A c \in Callers : pc[c] = "ready" /\ sb[c].val.rootfs = r /\ runs[c] = 0
        /\ dirs[r] = SkeletonDirs
        /\ ~Occupied(r)

\* C12: the output the invoker holds never exceeds the cap; a program that
\* writes more is cut off, and its run is not a success carrying the full output.
C12_CapturedOutputIsBounded ==
    \A c \in Callers :
        /\ captured[c] <= OutputCap
        /\ lastResult[c] = "Ok" => captured[c] <= OutputCap

\* C13: a failure of the backend itself (runc cannot be spawned, or runc refuses
\* the id or the bundle before any program runs) is never reported the way a
\* failure of the judged program is.
C13_BackendFailureIsNotProgramFailure ==
    [][\A c \in Callers :
          (pc[c] = "spawn" /\ pc'[c] = "ready") =>
              lastResult'[c] # ErrCommandFailed]_vars

\* C18: every config.json that run_command writes carries a memory ceiling and
\* a process-count ceiling in linux.resources, next to the denied devices, the
\* five empty capability sets and the six namespaces.
C18_ConfigCarriesResourceCeilings ==
    \A r \in RootfsPaths :
        files[r]["config.json"].exists =>
            LET config == files[r]["config.json"].content IN
            /\ "memory" \in DOMAIN config.linux.resources
            /\ "pids" \in DOMAIN config.linux.resources
            /\ config.linux.resources.devices = << [allow |-> FALSE, access |-> "rwm"] >>
            /\ \A set \in {"bounding", "effective", "inheritable", "permitted", "ambient"} :
                  config.process.capabilities[set] = {}
            /\ config.linux.namespaces = <<"pid", "network", "ipc", "uts", "mount", "user">>

\* C19: run_command writes config.json, with process.args the command followed
\* by the arguments in order, before it starts runc; runc is started only by an
\* invocation whose config.json was written; when the write fails the invocation
\* returns the io error and runc is not started for it.
C19_ConfigWrittenBeforeBackend ==
    [][\A c \in Callers :
          \* the write step succeeded
          /\ (pc[c] = "ready" /\ pc'[c] = "spawn") =>
                LET config == files'[sb[c].val.rootfs]["config.json"] IN
                /\ config.exists
                /\ config.content.process.args =
                      <<requested'[c].val[1]>> \o requested'[c].val[2]
                /\ handed' = handed
          \* runc is started for an invocation only after its write step
          /\ \A h \in handed' \ handed :
                h.caller = c => (pc[c] = "spawn" /\ h.run = runs[c])
          \* the write step failed
          /\ (runs'[c] # runs[c] /\ pc'[c] = "ready") =>
                /\ lastResult'[c] = ErrIo
                /\ handed' = handed
                /\ ~\E h \in handed' : h.caller = c /\ h.run = runs'[c]
          /\ lastResult'[c] = ErrIo =>
                ~\E h \in handed' : h.caller = c /\ h.run = runs'[c]]_vars

\* C19, its case: one invocation runs the arguments it was asked to run, after
\* another invocation's write failed on a removed rootfs and returned the error.
C19_Witness ==
    \E c, d \in Callers :
        /\ pc[c] = "running"
        /\ executed[c] = Some(<<requested[c].val[1]>> \o requested[c].val[2])
        /\ runcInstalled
        /\ pc[d] = "ready"
        /\ runs[d] > 0
        /\ lastResult[d] = ErrIo

(***************************************************************************)
(* Claims about the verdict model                                            *)
(***************************************************************************)
\* C5: a result whose status is Accepted has passed all of its test cases.
C5_AcceptedImpliesAllPassed ==
    result.some =>
        (is_accepted(result.val.status) =>
            passed_test_cases(result.val) = total_test_cases(result.val))

AcceptedCalls == {i \in 1..Len(calls) : calls[i].status = Status("Accepted")}

\* C6: after any constructor and any add_test_case calls, total_test_cases is the
\* number of entries added, passed_test_cases is the number of those added with
\* status Accepted, and so passed <= total.
C6_PassedAtMostTotal ==
    result.some =>
        /\ total_test_cases(result.val) = Len(calls)
        /\ passed_test_cases(result.val) = Cardinality(AcceptedCalls)
        /\ passed_test_cases(result.val) <= total_test_cases(result.val)

\* C6, its case: entries have been added, some Accepted and some not.
C6_Witness ==
    /\ result.some
    /\ Len(calls) = MaxResults
    /\ AcceptedCalls # {}
    /\ AcceptedCalls # 1..Len(calls)

NotAccepted(cases) == {i \in 1..Len(cases) : cases[i].status # Status("Accepted")}
FirstNotAccepted(cases) ==
    CHOOSE i \in NotAccepted(cases) : \A j \in NotAccepted(cases) : i <= j

\* C7: once test case results have been added, the overall status is Accepted
\* exactly when every one of them is Accepted, and otherwise it is the status of
\* the first one, in insertion order, that is not.
C7_OverallStatusFollowsCases ==
    (result.some /\ Len(result.val.test_cases) > 0) =>
        LET cases == result.val.test_cases IN
        result.val.status =
            IF NotAccepted(cases) = {} THEN Status("Accepted")
            ELSE cases[FirstNotAccepted(cases)].status

\* The weight of the task's cases whose result, at the same place, is Accepted.
RECURSIVE PassedWeight(_, _, _)
PassedWeight(cases, results, n) ==
    IF n = 0 THEN 0
    ELSE PassedWeight(cases, results, n - 1)
         + (IF results[n].status = Status("Accepted") THEN cases[n].weight ELSE 0)

\* The result holds one entry for each of the task's cases, in task order.
ResultCoversTask ==
    /\ result.some
    /\ Len(result.val.test_cases) = Len(task.val.test_cases)
    /\ \A i \in 1..Len(task.val.test_cases) :
          result.val.test_cases[i].id = task.val.test_cases[i].id

\* C8: the score lies in [0,100], and for a result that covers its task's cases
\* it is sum(weight of Accepted cases) / sum(weight of all cases) * 100.
C8_ScoreIsWeightedFraction ==
    result.some =>
        /\ 0 <= result.val.score /\ result.val.score <= 100
        /\ (ResultCoversTask /\ total_weight(task.val) > 0) =>
              result.val.score * total_weight(task.val) =
                  100 * PassedWeight(task.val.test_cases, result.val.test_cases,
                                     Len(task.val.test_cases))

\* C9: a JudgeResult is created with no test case results at status Pending, and
\* once its status is final neither its status nor its score changes.
C9_Lifecycle ==
    [][ /\ (~result.some /\ result'.some) =>
              /\ result'.val.status = Status("Pending")
              /\ result'.val.test_cases = <<>>
        /\ (result.some /\ is_final(result.val.status)) =>
              /\ result'.val.status = result.val.status
              /\ result'.val.score = result.val.score ]_vars

\* C14: whatever status and error info it is given, with_error yields a result
\* with that status, no test case results, score 0 and the error info present.
C14_WithErrorIsEmptyZero ==
    [][WithError =>
          /\ result'.some
          /\ result'.val.status \in JudgeStatus
          /\ result'.val.test_cases = <<>>
          /\ result'.val.score = 0
          /\ result'.val.error_info.some
          /\ result'.val.error_info.val \in ErrorInfos]_vars

\* C14, its case: a compilation failure reported through with_error.
C14_Witness ==
    /\ result.some
    /\ calls = <<>>
    /\ result.val.status = Status("CompileError")
    /\ result.val.error_info = Some(ErrorInfoNew("Compilation failed"))

\* The statuses other than Pending and Judging, one by one.
FinalStatuses ==
    { Status("Accepted"), Status("WrongAnswer"), Status("TimeLimitExceeded"),
      Status("MemoryLimitExceeded"), Status("CompileError"),
      Status("RestrictedOperation"), Status("OutputLimitExceeded"),
      Status("SystemError"), Status("Cancelled") }
    \cup {RuntimeError(k) : k \in RuntimeErrorType}

\* C15: is_final is false for Pending and for Judging and true for every other
\* status, whichever status a result carries.
C15_OnlyPendingAndJudgingNotFinal ==
    result.some =>
        /\ result.val.status \in FinalStatuses => is_final(result.val.status)
        /\ result.val.status \in {Status("Pending"), Status("Judging")}
              => ~is_final(result.val.status)
        /\ result.val.status \in
              FinalStatuses \cup {Status("Pending"), Status("Judging")}

\* C15, its case: a result carrying Cancelled, which is final.
C15_Witness ==
    /\ result.some
    /\ result.val.status = Status("Cancelled")
    /\ is_final(result.val.status)

\* The languages the claim lists as compiled.
CompiledLanguages ==
    {"C", "Cpp", "Cpp11", "Cpp14", "Cpp17", "Cpp20", "Java", "Rust", "Go"}

\* C16: a task's needs_compilation flag is the value derived from its
\* submission's language, and its compile_flags are the language's default flags
\* exactly when compilation is needed.
C16_NeedsCompilationIsDerived ==
    task.some =>
        LET lang == task.val.submission.language IN
        /\ task.val.needs_compilation = (lang \in CompiledLanguages)
        /\ task.val.compile_flags =
              IF lang \in CompiledLanguages THEN Some(default_compile_flags(lang))
              ELSE None

EffectiveTimeLimits(t) ==
    { IF t.test_cases[i].time_limit.some THEN t.test_cases[i].time_limit.val
      ELSE t.submission.time_limit : i \in 1..Len(t.test_cases) }
EffectiveMemoryLimits(t) ==
    { IF t.test_cases[i].memory_limit.some THEN t.test_cases[i].memory_limit.val
      ELSE t.submission.memory_limit : i \in 1..Len(t.test_cases) }
IsMaxOf(m, S) == m \in S /\ \A x \in S : x <= m

\* C17: a case's effective limit is its own limit when it has one and the
\* submission's otherwise; max_time_limit and max_memory_limit are the largest
\* effective limit over the task's cases, and the submission's limit when the
\* task has no case.
C17_MaxLimits ==
    task.some =>
        LET t == task.val IN
        /\ \A i \in 1..Len(t.test_cases) :
              /\ effective_time_limit(t.test_cases[i], t.submission.time_limit)
                    \in EffectiveTimeLimits(t)
              /\ t.test_cases[i].time_limit.some =>
                    effective_time_limit(t.test_cases[i], t.submission.time_limit)
                        = t.test_cases[i].time_limit.val
              /\ ~t.test_cases[i].time_limit.some =>
                    effective_time_limit(t.test_cases[i], t.submission.time_limit)
                        = t.submission.time_limit
              /\ t.test_cases[i].memory_limit.some =>
                    effective_memory_limit(t.test_cases[i], t.submission.memory_limit)
                        = t.test_cases[i].memory_limit.val
              /\ ~t.test_cases[i].memory_limit.some =>
                    effective_memory_limit(t.test_cases[i], t.submission.memory_limit)
                        = t.submission.memory_limit
        /\ IF t.test_cases = <<>>
           THEN /\ max_time_limit(t) = t.submission.time_limit
                /\ max_memory_limit(t) = t.submission.memory_limit
           ELSE /\ IsMaxOf(max_time_limit(t), EffectiveTimeLimits(t))
                /\ IsMaxOf(max_memory_limit(t), EffectiveMemoryLimits(t))

\* C17, its case: a task with a case that has no limit of its own and a case
\* whose limit is below the submission's.
C17_Witness ==
    /\ task.some
    /\ Len(task.val.test_cases) = 2
    /\ ~task.val.test_cases[1].time_limit.some
    /\ task.val.test_cases[2].time_limit = Some(100)
    /\ task.val.submission.time_limit = 1000
    /\ max_time_limit(task.val) = 1000

\* C20: add_test_case puts exactly one entry at the end of test_cases, keeps the
\* earlier entries as they were and in their order, and leaves status, score,
\* time_used, memory_used, error_info and the submission, problem and user ids
\* as they were.
C20_AddTestCaseFrame ==
    [][AddTestCase =>
          LET old == result.val
              new == result'.val
              n == Len(old.test_cases)
          IN
          /\ result'.some
          /\ Len(new.test_cases) = n + 1
          /\ \A i \in 1..n : new.test_cases[i] = old.test_cases[i]
          /\ new.test_cases[n + 1] = calls'[Len(calls')]
          /\ new.status = old.status
          /\ new.score = old.score
          /\ new.time_used = old.time_used
          /\ new.memory_used = old.memory_used
          /\ new.error_info = old.error_info
          /\ new.submission_id = old.submission_id
          /\ new.problem_id = old.problem_id
          /\ new.user_id = old.user_id]_vars

\* C20, its case: two different entries were added, in the order of the calls,
\* to an accepted result, the second of them not accepted.
C20_Witness ==
    /\ result.some
    /\ Len(calls) = 2
    /\ result.val.test_cases = calls
    /\ calls[1] # calls[2]
    /\ result.val.status = Status("Accepted")
    /\ calls[2].status # Status("Accepted")
    /\ result.val.score = 100

====
